---- MODULE Spec2Model ----
(***************************************************************************)
(* Token and session management of the SaaS backend: AuthService (Login,   *)
(* RefreshToken, Logout, StartSession, TerminateSession,                   *)
(* TerminateAllUserSessions, the periodic cleanup), UserService's token    *)
(* invalidation, the composite TokenRepository and its two stores (the     *)
(* relational refresh/blacklist tables and the Redis claims/index keys).   *)
(*                                                                         *)
(* Every request runs on its own task; a request is a sequence of store    *)
(* commands, each of which is atomic in its store.  One model step is one  *)
(* store command together with the pure code that follows it up to the     *)
(* next store command.  Any store command may fail (connectivity).         *)
(*                                                                         *)
(* Time is counted in ticks; lim.tps ticks make one clock second.          *)
(***************************************************************************)
EXTENDS Integers, Sequences, FiniteSets, TLC

\* ------------------------------------------------------------------ bounds
\* Upper bound of the access-token identifiers (domain of the claims keys).
MaxTokens == 3
\* Spec: one request at a time, every operation of the services, stores may
\* fail.
SessTokens == 1
SessMaxTime == 6
SessTicksPerSecond == 3
\* SpecSeq: one request at a time on the session operations, stores may fail.
SeqTokens == 1
SeqMaxTime == 4
SeqTicksPerSecond == 3
\* SpecBulk: one request at a time, several sessions of one account.
BulkTokens == 2
BulkMaxTime == 1
\* SpecBulkFaults: as SpecBulk, stores may fail.
BulkFaultsTokens == 2
BulkFaultsMaxTime == 1
\* SpecLogout: two requests in flight, Login and Logout only.
LogoutTokens == 1
LogoutMaxTime == 2
\* SpecOwn: one request at a time, two accounts.
OwnTokens == 2
OwnMaxTime == 1
\* SpecSweep: the cleanup cycle beside one request at a time.
SweepTokens == 1
SweepMaxTime == 2
\* SpecTouch: one request at a time, requests with and without an IP address
\* and a user agent, stores may fail.
TouchTokens == 1
TouchMaxTime == 3
\* SpecRotate: one request at a time, refresh rotation and StartSession.
RotateTokens == 2
RotateMaxTime == 2
\* SpecRace: two requests in flight on one session.
RaceTokens == 1
RaceMaxTime == 2
\* SpecRefresh: one request at a time, refresh rotation.
RefreshTokens == 3
RefreshMaxTime == 4
RefreshTicksPerSecond == 2
\* SpecRefreshRace: two requests in flight, refresh rotation.
RefreshRaceTokens == 3
RefreshRaceMaxTime == 2

\* time.Hour added to the TTL of the per-user index key, in model seconds.
IndexMargin == 1

Users == {"u1", "u2"}
NoUser == "none"
Procs == {"p1", "p2"}

TokenIds == 1..MaxTokens

VARIABLES
  now,        \* the clock, in ticks
  cfg,        \* JWTConfig: AccessTokenTTL, RefreshTokenTTL, SessionTimeout (seconds)
  lim,        \* the bounds of the specification being checked
  active,     \* users.is_active
  lastLogin,  \* users.last_login_at (NoExpiry: never)
  issued,     \* the access tokens signed so far: <<[sub, exp]>>, a token is its index
  claims,     \* Redis saas_tokens:token:<hash>  -> claims record with its expiry
  index,      \* Redis saas_tokens:user:<id>:tokens -> set of hashes
  indexExp,   \* expiry of the index key (NoExpiry: none)
  refresh,    \* table refresh_tokens: rows [key, user, exp]
  blacklist,  \* table blacklisted_tokens: rows [key, user, exp]
  pc,         \* per task: the store command it is about to issue
  loc,        \* per task: the locals of the running handler
  hist        \* history of returned calls (used only to state properties)

vars == <<now, cfg, lim, active, lastLogin, issued, claims, index, indexExp,
          refresh, blacklist, pc, loc, hist>>

stores == <<claims, index, indexExp, refresh, blacklist>>

\* ------------------------------------------------------------- token codec
\* sha256 of the token string: an injective map into the key space of Redis.
GetTokenHash(t) == t + MaxTokens

Hashes == {GetTokenHash(t) : t \in TokenIds}

NoToken == 0
NoHash == 0
NoExpiry == -1

\* A refresh token is the signature over its content: subject, issued-at and
\* expiry, each truncated to the second (jwt.NewNumericDate).
NoRT == [sub |-> NoUser, iat |-> -1]

Ticks(seconds) == seconds * lim.tps
SecondOf(t) == t \div lim.tps

\* A claims record: the account, LastActivity, IPAddress and UserAgent of the
\* stored auth.Claims, and the expiry of its key.
NoClaims == [user |-> NoUser, la |-> 0, exp |-> 0, ip |-> "", ua |-> ""]

\* ------------------------------------------------------------ Redis client
\* GET saas_tokens:token:<hash>: expired keys are gone (see Tick).
Live(h) == claims[h].user # NoUser

\* TTL: -2 for a missing key, -1 for a key without expiry (go-redis hands both
\* back as a Duration of -2ns / -1ns), else the remaining time rounded to
\* whole seconds, (ms + 500) / 1000.
RedisTTL(h) ==
  IF ~Live(h) THEN -2
  ELSE IF claims[h].exp = NoExpiry THEN -1
  ELSE (((claims[h].exp - now) * 1000) \div lim.tps + 500) \div 1000

\* The expiry a key has after SET key value <expiration>: go-redis sends EX/PX
\* only for expiration > 0, KEEPTTL for -1 and no option otherwise, and a SET
\* without option leaves the key without expiry.
ExpiryAfterSet(h, expiration) ==
  IF expiration > 0 THEN now + Ticks(expiration)
  ELSE IF expiration = -1 /\ Live(h) THEN claims[h].exp
  ELSE NoExpiry

\* SREM: Redis deletes a set key (and its TTL) when its last member goes.
SRem(u, h) ==
  /\ index' = [index EXCEPT ![u] = @ \ {h}]
  /\ indexExp' = [indexExp EXCEPT ![u] = IF index[u] \ {h} = {} THEN NoExpiry ELSE @]

\* ------------------------------------------------------------- SQL queries
\* SELECT ... FROM refresh_tokens WHERE token_hash = $1 AND expires_at > NOW()
getRefreshToken(key) == {r \in refresh : r.key = key /\ r.exp > now}

\* A lookup that finds no row.
NeverBlacklisted(key) == FALSE

\* SELECT COUNT(*) FROM blacklisted_tokens WHERE token_hash = $1 AND
\* expires_at > NOW()   (count > 0)
isTokenBlacklisted(key) == \E r \in blacklist : r.key = key /\ r.exp > now

\* An INSERT that adds its row whether or not the key is there.
blacklistAgain(u, key, expiresAt) ==
  blacklist \cup {[key |-> key, user |-> u, exp |-> expiresAt]}

\* INSERT INTO blacklisted_tokens ... ON CONFLICT (token_hash) DO NOTHING
blacklistToken(u, key, expiresAt) ==
  IF \E r \in blacklist : r.key = key THEN blacklist
  ELSE blacklist \cup {[key |-> key, user |-> u, exp |-> expiresAt]}

\* The composite repository hands the token it is given to the table as the
\* value of token_hash.
DurableKey(token) == token

\* jwt.ParseWithClaims: the signature matches only tokens this service signed,
\* and the token must not be past its exp.
ValidJWT(t) == t \in 1..Len(issued) /\ now < issued[t].exp

\* ------------------------------------------------------------------- tasks
Idle == [op |-> "none", usr |-> NoUser, tok |-> NoToken, rt |-> NoRT,
         h |-> NoHash, stored |-> NoClaims, ttl |-> 0, list |-> {},
         keep |-> NoHash, n |-> 0, t0 |-> 0, err |-> FALSE, res |-> "none",
         new |-> NoRT, pre |-> {}, seenBl |-> FALSE, seenCl |-> NoClaims,
         after |-> {}, kept |-> NoHash, keys |-> {}, members |-> {},
         ins |-> FALSE, ip |-> "", ua |-> "", ret |-> NoClaims]

\* The outcomes of one store command: it works, or (where the specification
\* lets the stores fail) it returns a connectivity error and changes nothing.
Outcomes == IF lim.faults THEN BOOLEAN ELSE {TRUE}

\* A handler that has returned hands its result over at once (Finish): no
\* other step is taken while a result is pending.
Ready == \A q \in Procs : pc[q] # "done"

Free(p) == pc[p] = "idle" /\ Ready

At(p, label) == pc[p] = label /\ Ready

\* The handler returns `result`.
Return(p, l, result) ==
  /\ pc' = [pc EXCEPT ![p] = "done"]
  /\ loc' = [loc EXCEPT ![p] = [l EXCEPT !.res = result]]

Goto(p, l, label) ==
  /\ pc' = [pc EXCEPT ![p] = label]
  /\ loc' = [loc EXCEPT ![p] = l]

\* The result has been handed to the caller.
Finish(p) ==
  /\ pc[p] = "done"
  /\ pc' = [pc EXCEPT ![p] = "idle"]
  /\ loc' = [loc EXCEPT ![p] = Idle]
  /\ hist' = IF lim.track
             THEN [hist EXCEPT !.last = [call |-> loc[p], at |-> now]]
             ELSE hist
  /\ UNCHANGED <<now, cfg, lim, active, lastLogin, issued, claims, index, indexExp,
                 refresh, blacklist>>

\* The history: the access tokens (returned) and refresh tokens (rts) handed
\* to callers; the tokens Logout succeeded on (loggedOut), whose session a
\* StartSession found timed out (timedOut), whose claims deleteTokenClaims
\* deleted (deleted), that were signed before a deactivation (deact) or before
\* a successful TerminateAllUserSessions(account, nil) (killed); the refresh
\* tokens exchanged (refreshed), exchanged more than once (reused), and those
\* returned before deleteUserTokens ran or rotated from such a token (old);
\* and, where the specification keeps it (lim.track), the call that returned
\* last, with its locals, and when it returned (last).
NoCall == [call |-> Idle, at |-> 0]

NoHist == [returned |-> {}, rts |-> {}, loggedOut |-> {}, refreshed |-> {},
           reused |-> {}, deact |-> {}, killed |-> {}, old |-> {},
           timedOut |-> {}, deleted |-> {}, last |-> NoCall]

\* The state after NewAuthService, under bounds l and one of the
\* configurations (config.Load reads them from the environment).
InitWith(l, configs) ==
  /\ now = 0
  /\ cfg \in configs
  /\ lim = l
  /\ active = [u \in Users |-> TRUE]
  /\ lastLogin = [u \in Users |-> NoExpiry]
  /\ issued = << >>
  /\ claims = [h \in Hashes |-> NoClaims]
  /\ index = [u \in Users |-> {}]
  /\ indexExp = [u \in Users |-> NoExpiry]
  /\ refresh = {}
  /\ blacklist = {}
  /\ pc = [p \in Procs |-> "idle"]
  /\ loc = [p \in Procs |-> Idle]
  /\ hist = NoHist

\* The clock advances; Redis drops the keys whose TTL has run out.
Tick ==
  /\ Ready
  /\ now < lim.maxTime
  /\ now' = now + 1
  /\ claims' = [h \in Hashes |->
        IF claims[h].exp # NoExpiry /\ claims[h].exp <= now + 1
        THEN NoClaims ELSE claims[h]]
  /\ index' = [u \in Users |->
        IF indexExp[u] # NoExpiry /\ indexExp[u] <= now + 1 THEN {} ELSE index[u]]
  /\ indexExp' = [u \in Users |->
        IF indexExp[u] # NoExpiry /\ indexExp[u] <= now + 1 THEN NoExpiry ELSE indexExp[u]]
  /\ UNCHANGED <<cfg, lim, active, lastLogin, issued, refresh, blacklist, pc, loc, hist>>

\* ------------------------------------------------- AuthService.GenerateTokens
\* Tasks that will still sign a token: issuance is capped by lim.tokens.
Issuing == {q \in Procs : pc[q] \in {"rf_check", "gt_set"}}

MayIssue == Len(issued) + Cardinality(Issuing) < lim.tokens

\* Signs the access token (its claims carry time.Now() to the nanosecond, so
\* no two access tokens are equal) and SETs the claims under the token's hash
\* with ttl = time.Until(now + SessionTimeout).
GT_StoreClaims(p) ==
  /\ At(p, "gt_set")
  /\ \E ok \in Outcomes :
       LET u == loc[p].usr
           t == Len(issued) + 1
           h == GetTokenHash(t)
           l == [loc[p] EXCEPT !.tok = t, !.h = h, !.t0 = now,
                               !.ttl = Ticks(cfg.session)]
       IN IF ok
          THEN /\ issued' = Append(issued,
                     [sub |-> u, exp |-> Ticks(SecondOf(now) + cfg.access)])
               /\ claims' = [claims EXCEPT ![h] =
                     [user |-> u, la |-> now, exp |-> now + Ticks(cfg.session),
                      ip |-> "", ua |-> ""]]
               /\ Goto(p, l, "gt_sadd")
          ELSE /\ UNCHANGED <<issued, claims>>
               /\ Return(p, loc[p], "StoreError")
  /\ UNCHANGED <<now, cfg, lim, active, lastLogin, index, indexExp, refresh, blacklist, hist>>

\* SADD saas_tokens:user:<id>:tokens <hash>
GT_SAdd(p) ==
  /\ At(p, "gt_sadd")
  /\ \E ok \in Outcomes :
       IF ok
       THEN /\ index' = [index EXCEPT ![loc[p].usr] = @ \cup {loc[p].h}]
            /\ Goto(p, loc[p], "gt_expire")
       ELSE /\ UNCHANGED index
            /\ Return(p, loc[p], "StoreError")
  /\ UNCHANGED <<now, cfg, lim, active, lastLogin, issued, claims, indexExp, refresh, blacklist, hist>>

\* EXPIRE userKey ttl+1h; its result is dropped.
GT_Expire(p) ==
  /\ At(p, "gt_expire")
  /\ \E ok \in Outcomes :
       indexExp' = [indexExp EXCEPT ![loc[p].usr] =
          IF ok /\ index[loc[p].usr] # {}
          THEN now + loc[p].ttl + Ticks(IndexMargin) ELSE @]
  /\ Goto(p, loc[p], "gt_refresh")
  /\ UNCHANGED <<now, cfg, lim, active, lastLogin, issued, claims, index, refresh, blacklist, hist>>

\* Signs the refresh token (subject, iat, exp of the same `now`) and INSERTs
\* its row; token_hash is UNIQUE.  Login goes on to its last-login update,
\* RefreshToken to delete the old row.
GT_StoreRefresh(p) ==
  /\ At(p, "gt_refresh")
  /\ \E ok \in Outcomes :
       LET u == loc[p].usr
           new == [sub |-> u, iat |-> SecondOf(loc[p].t0)]
           row == [key |-> DurableKey(new), user |-> u,
                   exp |-> loc[p].t0 + Ticks(cfg.refresh)]
           dup == \E r \in refresh : r.key = row.key
           l == [loc[p] EXCEPT !.new = new]
       IN IF ok /\ ~dup
          THEN /\ refresh' = refresh \cup {row}
               /\ IF loc[p].op = "Login"
                  THEN /\ Goto(p, l, "lg_update")
                       /\ hist' = [hist EXCEPT !.old = @ \ {new}]
                  ELSE /\ Goto(p, l, "rf_delete")
                       /\ hist' = [hist EXCEPT !.old =
                             IF loc[p].rt \in @ THEN @ \cup {new} ELSE @]
          ELSE /\ UNCHANGED <<refresh, hist>>
               /\ Return(p, l, "StoreError")
  /\ UNCHANGED <<now, cfg, lim, active, lastLogin, issued, claims, index, indexExp, blacklist>>

\* ---------------------------------------------------------- AuthService.Login
\* What tenantRepo.GetByID answers for the account's tenant: its status, or
\* no row.  The tenants are kept by the tenant service.
TenantRows == {"active", "suspended", "canceled", "missing"}

\* Tenant.CanAccess
CanAccess(status) == status = "active"

\* The checks of Login without the one on IsActive.
LoginCheckLax(u, pwOK, tenant) ==
  IF u = NoUser THEN "UserNotFound"
  ELSE IF ~pwOK THEN "InvalidCredentials"
  ELSE IF tenant = "missing" THEN "TenantNotFound"
  ELSE IF ~CanAccess(tenant) THEN "TenantUnavailable"
  ELSE "ok"

\* The checks of Login, in the order of the code: GetByEmail,
\* bcrypt.CompareHashAndPassword, IsActive, tenantRepo.GetByID, CanAccess.
LoginCheck(u, pwOK, tenant) ==
  IF u = NoUser THEN "UserNotFound"
  ELSE IF ~pwOK THEN "InvalidCredentials"
  ELSE IF ~active[u] THEN "AccountInactive"
  ELSE IF tenant = "missing" THEN "TenantNotFound"
  ELSE IF ~CanAccess(tenant) THEN "TenantUnavailable"
  ELSE "ok"

\* What is wrong with the request of a Login, whatever the order of the checks.
LoginFaults(u, pwOK, tenant) ==
  (IF u = NoUser THEN {"unknown"} ELSE {})
    \cup (IF u # NoUser /\ ~pwOK THEN {"badSecret"} ELSE {})
    \cup (IF u # NoUser /\ ~active[u] THEN {"inactive"} ELSE {})
    \cup (IF u # NoUser /\ ~CanAccess(tenant) THEN {"noTenant"} ELSE {})

\* The email of the request is that of an account or of none; the password
\* verifies against the stored hash or not.
Login(p) ==
  /\ Free(p)
  /\ MayIssue
  /\ \E u \in lim.users \cup {NoUser}, pwOK \in BOOLEAN, tenant \in TenantRows :
       LET l == [Idle EXCEPT !.op = "Login", !.usr = u,
                             !.after = LoginFaults(u, pwOK, tenant)]
           verdict == LoginCheck(u, pwOK, tenant)
       IN IF verdict = "ok" THEN Goto(p, l, "gt_set")
          ELSE Return(p, l, verdict)
  /\ UNCHANGED <<now, cfg, lim, active, lastLogin, issued, stores, hist>>

\* userRepo.Update(foundUser) with LastLoginAt = time.Now(): the row is written
\* back as GetByEmail read it (is_active included); a failure is logged and
\* the pair is returned all the same.
LG_Update(p) ==
  /\ At(p, "lg_update")
  /\ \E ok \in Outcomes :
       LET u == loc[p].usr
       IN /\ lastLogin' = IF ok THEN [lastLogin EXCEPT ![u] = now] ELSE lastLogin
          /\ active' = IF ok THEN [active EXCEPT ![u] = TRUE] ELSE active
          /\ Return(p, [loc[p] EXCEPT !.err = ~ok], "ok")
  /\ hist' = [hist EXCEPT !.returned = @ \cup {loc[p].tok},
                          !.rts = @ \cup {loc[p].new}]
  /\ UNCHANGED <<now, cfg, lim, issued, stores>>

\* --------------------------------------------------- AuthService.RefreshToken
\* GetRefreshToken: the row of the presented token, unless it is past expiry.
\* The status of the account's tenant at the time of the call is recorded; the
\* handler does not read it.
RefreshToken(p) ==
  /\ Free(p)
  /\ MayIssue
  /\ \E rt \in hist.rts, ok \in Outcomes, tenant \in TenantRows :
       LET rows == getRefreshToken(DurableKey(rt))
           l == [Idle EXCEPT !.op = "Refresh", !.rt = rt,
                    !.after = (IF rt \in hist.refreshed THEN {"refreshed"} ELSE {})
                       \cup (IF rows # {} THEN {"stored"} ELSE {})
                       \cup (IF ok THEN {} ELSE {"failure"})
                       \cup (IF CanAccess(tenant) THEN {} ELSE {"noTenant"})]
       IN IF ok /\ rows # {}
          THEN LET row == CHOOSE r \in rows : TRUE
               IN Goto(p, [l EXCEPT !.usr = row.user, !.t0 = row.exp], "rf_check")
          ELSE Return(p, l, "InvalidRefreshToken")
  /\ UNCHANGED <<now, cfg, lim, active, lastLogin, issued, stores, hist>>

\* time.Now().After(storedToken.ExpiresAt), else userRepo.GetByID, whose row
\* goes to GenerateTokens as it is; whether it is that of an inactive account
\* is recorded.
RF_Check(p) ==
  /\ At(p, "rf_check")
  /\ IF now > loc[p].t0
     THEN Goto(p, loc[p], "rf_delexp")
     ELSE Goto(p, [loc[p] EXCEPT !.after = IF active[loc[p].usr] THEN @
                                          ELSE @ \cup {"inactive"}], "gt_set")
  /\ UNCHANGED <<now, cfg, lim, active, lastLogin, issued, stores, hist>>

\* DELETE of the expired row; RefreshToken fails whether or not it worked.
RF_DeleteExpired(p) ==
  /\ At(p, "rf_delexp")
  /\ \E ok \in Outcomes :
       refresh' = IF ok THEN {r \in refresh : r.key # DurableKey(loc[p].rt)}
                  ELSE refresh
  /\ Return(p, loc[p], "InvalidRefreshToken")
  /\ UNCHANGED <<now, cfg, lim, active, lastLogin, issued, claims, index, indexExp, blacklist, hist>>

\* A rotation that also ends the sessions of the account's older access
\* tokens.
RF_DeleteRevoking(p) ==
  /\ At(p, "rf_delete")
  /\ refresh' = {r \in refresh : r.key # DurableKey(loc[p].rt)}
  /\ claims' = [h \in Hashes |->
        IF claims[h].user = loc[p].usr /\ h # loc[p].h THEN NoClaims ELSE claims[h]]
  /\ Return(p, loc[p], "ok")
  /\ hist' = [hist EXCEPT !.returned = @ \cup {loc[p].tok},
                          !.rts = @ \cup {loc[p].new},
                          !.refreshed = @ \cup {loc[p].rt}]
  /\ UNCHANGED <<now, cfg, lim, active, lastLogin, issued, index, indexExp, blacklist>>

\* DELETE FROM refresh_tokens WHERE token_hash = <the used token>; a failure
\* is logged and the new pair is returned all the same.
RF_Delete(p) ==
  /\ At(p, "rf_delete")
  /\ \E ok \in Outcomes :
       /\ refresh' = IF ok THEN {r \in refresh : r.key # DurableKey(loc[p].rt)}
                     ELSE refresh
       /\ Return(p, [loc[p] EXCEPT !.err = ~ok], "ok")
  /\ hist' = [hist EXCEPT !.returned = @ \cup {loc[p].tok},
                          !.rts = @ \cup {loc[p].new},
                          !.refreshed = @ \cup {loc[p].rt},
                          !.reused = @ \cup (IF loc[p].rt \in hist.refreshed
                                             THEN {loc[p].rt} ELSE {})]
  /\ UNCHANGED <<now, cfg, lim, active, lastLogin, issued, claims, index, indexExp, blacklist>>

\* ---------------------------------- TokenRedisRepository.deleteTokenClaims
\* Callers that all hand the error of DeleteTokenClaims on to their caller.
AfterDeleteStrict(p, l, failed) ==
  /\ IF l.op = "StartSession" THEN Goto(p, l, "ss_blacklist")
     ELSE IF failed THEN Return(p, l, "StoreError")
     ELSE Return(p, l, "ok")
  /\ hist' = IF l.op = "Logout" /\ ~failed
             THEN [hist EXCEPT !.loggedOut = @ \cup {l.tok}]
             ELSE hist

\* Where the caller of DeleteTokenClaims goes on, given the error it got.
AfterDelete(p, l, failed) ==
  /\ IF l.op = "StartSession" THEN Goto(p, l, "ss_blacklist")
     ELSE IF l.op = "Logout" THEN Return(p, l, "ok")
     ELSE IF failed THEN Return(p, l, "StoreError")
     ELSE Return(p, l, "ok")
  /\ hist' = IF l.op = "Logout"
             THEN [hist EXCEPT !.loggedOut = @ \cup {l.tok}]
             ELSE hist

\* GET: "token not found or expired" is success, another error is returned.
DC_Get(p) ==
  /\ At(p, "dc_get")
  /\ \E ok \in Outcomes :
       IF ~ok THEN AfterDelete(p, [loc[p] EXCEPT !.err = TRUE], TRUE)
       ELSE IF ~Live(loc[p].h) THEN AfterDelete(p, loc[p], FALSE)
       ELSE /\ Goto(p, [loc[p] EXCEPT !.usr = claims[loc[p].h].user], "dc_del")
            /\ hist' = hist
  /\ UNCHANGED <<now, cfg, lim, active, lastLogin, issued, stores>>

\* DEL saas_tokens:token:<hash>
DC_Del(p) ==
  /\ At(p, "dc_del")
  /\ \E ok \in Outcomes :
       IF ok
       THEN /\ claims' = [claims EXCEPT ![loc[p].h] = NoClaims]
            /\ Goto(p, loc[p], "dc_srem")
            /\ hist' = [hist EXCEPT !.deleted = @ \cup {loc[p].tok}]
       ELSE /\ UNCHANGED claims
            /\ AfterDelete(p, [loc[p] EXCEPT !.err = TRUE], TRUE)
  /\ UNCHANGED <<now, cfg, lim, active, lastLogin, issued, index, indexExp, refresh, blacklist>>

\* SREM userKey <hash>; a failure is only logged.
DC_SRem(p) ==
  /\ At(p, "dc_srem")
  /\ \E ok \in Outcomes :
       IF ok THEN SRem(loc[p].usr, loc[p].h) ELSE UNCHANGED <<index, indexExp>>
  /\ AfterDelete(p, loc[p], FALSE)
  /\ UNCHANGED <<now, cfg, lim, active, lastLogin, issued, claims, refresh, blacklist>>

\* ---------------------------------------------- AuthService.StartSession
\* What the caller may present as an access token: a token some Login or
\* RefreshToken returned, or a string this service never signed.
Presentable == hist.returned \cup {NoToken}

\* The refresh token GenerateTokens signed together with access token t: the
\* same subject and the same `now`.
PairOf(t) == [sub |-> issued[t].sub, iat |-> SecondOf(issued[t].exp) - cfg.access]

\* What is known of token t when a call with it begins.
Before(t) ==
  (IF t \in hist.loggedOut THEN {"loggedOut"} ELSE {})
    \cup (IF t \in hist.deact THEN {"deact"} ELSE {})
    \cup (IF t \in hist.killed THEN {"killed"} ELSE {})
    \cup (IF t \in hist.timedOut THEN {"timedOut"} ELSE {})
    \cup (IF /\ hist.last.call.op = "Login" /\ hist.last.call.res = "ok"
              /\ hist.last.call.tok = t /\ hist.last.at = now
          THEN {"fresh"} ELSE {})
    \cup (IF /\ hist.last.call.op = "TerminateAll" /\ hist.last.call.res = "ok"
              /\ t # NoToken /\ hist.last.call.keep = GetTokenHash(t)
              /\ hist.last.call.seenCl.user # NoUser /\ hist.last.at = now
          THEN {"kept"} ELSE {})
    \cup (IF /\ hist.last.call.op = "Refresh" /\ hist.last.call.res = "ok"
              /\ t \in 1..Len(issued) /\ hist.last.call.rt = PairOf(t)
              /\ hist.last.call.tok # t /\ hist.last.at = now
          THEN {"rotated"} ELSE {})

\* ValidateToken: parse and verify the JWT, then IsTokenBlacklisted.
StartSession(p) ==
  /\ Free(p)
  /\ \E t \in Presentable, ok \in Outcomes, ip \in lim.meta, ua \in lim.meta :
       LET l == [Idle EXCEPT !.op = "StartSession", !.tok = t, !.ip = ip, !.ua = ua,
                             !.h = GetTokenHash(t), !.after = Before(t),
                             !.seenBl = \E r \in blacklist :
                                          r.key = DurableKey(t) /\ r.exp > now]
       IN IF ~ValidJWT(t) THEN Return(p, l, "InvalidToken")
          ELSE IF ~ok THEN Return(p, [l EXCEPT !.err = TRUE], "StoreError")
          ELSE IF isTokenBlacklisted(DurableKey(t)) THEN Return(p, l, "Revoked")
          ELSE Goto(p, l, "ss_get")
  /\ UNCHANGED <<now, cfg, lim, active, lastLogin, issued, stores, hist>>

\* jwt.ParseWithClaims(tokenString, &auth.Claims{}, keyFunc) on a refresh
\* token this service signed: the key and HS256 are those of the access
\* tokens, the registered claims (sub, exp, iat) unmarshal into auth.Claims
\* with the other fields left zero, and the token must not be past its exp.
ValidRefreshJWT(rt) == now < Ticks(rt.iat + cfg.refresh)

\* StartSession called with a refresh token in the place of the access token:
\* ValidateToken parses it and asks the blacklist.  The blacklist holds no row
\* for it: its rows are written with the token of a request that got through
\* StartSession, and no access token equals a refresh token.
StartSessionRT(p) ==
  /\ Free(p)
  /\ \E rt \in hist.rts, ok \in Outcomes :
       LET l == [Idle EXCEPT !.op = "StartSession", !.rt = rt]
       IN IF ~ValidRefreshJWT(rt) THEN Return(p, l, "InvalidToken")
          ELSE IF ~ok THEN Return(p, [l EXCEPT !.err = TRUE], "StoreError")
          ELSE Goto(p, l, "ss_getrt")
  /\ UNCHANGED <<now, cfg, lim, active, lastLogin, issued, stores, hist>>

\* GetTokenClaims under the sha256 of the refresh token: claims are stored
\* under the fingerprints of access tokens only, so the GET answers redis.Nil
\* or an error, and StartSession returns "session not found".
SS_GetRT(p) ==
  /\ At(p, "ss_getrt")
  /\ \E ok \in Outcomes : Return(p, [loc[p] EXCEPT !.err = ~ok], "SessionNotFound")
  /\ UNCHANGED <<now, cfg, lim, active, lastLogin, issued, stores, hist>>

\* A StartSession that trusts the signature alone: the lookup result and the
\* owner of the stored claims are not consulted.
SessionCheckUnbound(found, stored, t) ==
  IF found /\ now - stored.la > Ticks(cfg.session) THEN "SessionTimedOut" ELSE "ok"

\* The checks on the stored claims: found, owned by the token's subject, and
\* active within SessionTimeout.
SessionCheck(found, stored, t) ==
  IF ~found THEN "SessionNotFound"
  ELSE IF stored.user # issued[t].sub THEN "SessionMismatch"
  ELSE IF now - stored.la > Ticks(cfg.session) THEN "SessionTimedOut"
  ELSE "ok"

\* GetTokenClaims, then the checks; a timed-out session is deleted and
\* blacklisted, a good one is touched.
SS_Get(p) ==
  /\ At(p, "ss_get")
  /\ \E ok \in Outcomes :
       LET h == loc[p].h
           valid == /\ ok /\ claims[h].user # NoUser
                    /\ claims[h].user = issued[loc[p].tok].sub
                    /\ now - claims[h].la <= Ticks(cfg.session)
           l == [loc[p] EXCEPT !.stored = claims[h], !.seenCl = claims[h],
                               !.err = ~ok,
                               !.after = IF valid THEN @ \cup {"valid"} ELSE @]
           verdict == SessionCheck(ok /\ Live(h), claims[h], loc[p].tok)
       IN IF verdict = "SessionTimedOut" THEN Goto(p, l, "dc_get")
          ELSE IF verdict = "ok" THEN Goto(p, l, "tu_get")
          ELSE Return(p, l, verdict)
  /\ UNCHANGED <<now, cfg, lim, active, lastLogin, issued, stores, hist>>

\* The timed-out branch, after DeleteTokenClaims: BlacklistToken with
\* expiry now + AccessTokenTTL; its failure is only logged.
SS_Blacklist(p) ==
  /\ At(p, "ss_blacklist")
  /\ \E ok \in Outcomes :
       /\ blacklist' =
            IF ok THEN blacklistToken(issued[loc[p].tok].sub, DurableKey(loc[p].tok),
                                      now + Ticks(cfg.access))
            ELSE blacklist
       /\ Return(p, [loc[p] EXCEPT !.err = @ \/ ~ok], "SessionTimedOut")
  /\ hist' = [hist EXCEPT !.timedOut = @ \cup {loc[p].tok}]
  /\ UNCHANGED <<now, cfg, lim, active, lastLogin, issued, claims, index, indexExp, refresh>>

\* ------------------------------- TokenRedisRepository.updateTokenActivity
\* A StartSession that hands the error of UpdateTokenActivity to its caller.
AfterTouchStrict(p, l, failed) ==
  IF failed THEN Return(p, [l EXCEPT !.err = TRUE], "StoreError")
  ELSE Return(p, [l EXCEPT !.ret = [l.seenCl EXCEPT !.la = now, !.ip = l.ip,
                                                     !.ua = l.ua]], "ok")

\* StartSession after UpdateTokenActivity: a failure of the touch is logged,
\* and the claims GetTokenClaims read are returned with LastActivity,
\* IPAddress and UserAgent set from the call.
AfterTouch(p, l, failed) ==
  Return(p, [l EXCEPT !.err = failed,
                      !.ret = [l.seenCl EXCEPT !.la = now, !.ip = l.ip, !.ua = l.ua]],
         "ok")

\* GET; LastActivity = time.Now(), and IPAddress and UserAgent where the call
\* gives one.
TU_Get(p) ==
  /\ At(p, "tu_get")
  /\ \E ok \in Outcomes :
       IF ok /\ Live(loc[p].h)
       THEN Goto(p, [loc[p] EXCEPT !.stored =
                       [claims[loc[p].h] EXCEPT
                          !.la = now,
                          !.ip = IF loc[p].ip # "" THEN loc[p].ip ELSE @,
                          !.ua = IF loc[p].ua # "" THEN loc[p].ua ELSE @]],
                 "tu_ttl")
       ELSE AfterTouch(p, loc[p], TRUE)
  /\ UNCHANGED <<now, cfg, lim, active, lastLogin, issued, stores, hist>>

\* TTL saas_tokens:token:<hash>
TU_TTL(p) ==
  /\ At(p, "tu_ttl")
  /\ \E ok \in Outcomes :
       IF ok THEN Goto(p, [loc[p] EXCEPT !.ttl = RedisTTL(loc[p].h)], "tu_set")
       ELSE AfterTouch(p, loc[p], TRUE)
  /\ UNCHANGED <<now, cfg, lim, active, lastLogin, issued, stores, hist>>

\* SET saas_tokens:token:<hash> <claims> <ttl>
TU_Set(p) ==
  /\ At(p, "tu_set")
  /\ \E ok \in Outcomes :
       /\ claims' =
            IF ok
            THEN [claims EXCEPT ![loc[p].h] =
                    [loc[p].stored EXCEPT !.exp = ExpiryAfterSet(loc[p].h, loc[p].ttl)]]
            ELSE claims
       /\ AfterTouch(p, loc[p], ~ok)
  /\ UNCHANGED <<now, cfg, lim, active, lastLogin, issued, index, indexExp, refresh, blacklist, hist>>

\* --------------------------------------------------- AuthService.Logout
\* BlacklistToken with expiry now + AccessTokenTTL, then DeleteTokenClaims.
\* The handler passes the account and the token of the authenticated request.
Logout(p) ==
  /\ Free(p)
  /\ \E t \in hist.returned, ok \in Outcomes :
       LET u == issued[t].sub
           l == [Idle EXCEPT !.op = "Logout", !.usr = u, !.tok = t,
                             !.h = GetTokenHash(t), !.after = Before(t),
                             !.ins = ok, !.seenCl = claims[GetTokenHash(t)]]
       IN IF ok
          THEN /\ blacklist' = blacklistToken(u, DurableKey(t), now + Ticks(cfg.access))
               /\ Goto(p, l, "dc_get")
          ELSE /\ UNCHANGED blacklist
               /\ Return(p, l, "StoreError")
  /\ UNCHANGED <<now, cfg, lim, active, lastLogin, issued, claims, index, indexExp, refresh, hist>>

\* ------------------------------------------ AuthService.TerminateSession
\* A check that lets any account terminate a session that is stored.
OwnerCheckAny(found, stored, u) ==
  IF ~found THEN "SessionNotFound" ELSE "ok"

\* The checks on the claims GetTokenClaims returned: found, and owned by the
\* account of the call.
OwnerCheck(found, stored, u) ==
  IF ~found THEN "SessionNotFound"
  ELSE IF stored.user # u THEN "SessionMismatch"
  ELSE "ok"

\* GetTokenClaims and the owner check, then DeleteTokenClaims.
TerminateSession(p) ==
  /\ Free(p)
  /\ \E u \in lim.users, t \in hist.returned, ok \in Outcomes :
       LET h == GetTokenHash(t)
           l == [Idle EXCEPT !.op = "TerminateSession", !.usr = u, !.tok = t, !.h = h]
           verdict == OwnerCheck(ok /\ Live(h), claims[h], u)
       IN IF verdict = "ok" THEN Goto(p, l, "dc_get")
          ELSE Return(p, l, verdict)
  /\ UNCHANGED <<now, cfg, lim, active, lastLogin, issued, stores, hist>>

\* The access tokens signed for account u so far.
TokensOf(u) == {t \in 1..Len(issued) : issued[t].sub = u}

\* ----------------------------- TokenRedisRepository.deleteUserTokenClaims
\* After the loop: with a hash to keep the whole index key is deleted.
AfterLoop(p, l) ==
  /\ IF l.keep # NoHash THEN Goto(p, l, "ta_delkey") ELSE Return(p, l, "ok")
  /\ hist' = IF l.keep = NoHash
             THEN [hist EXCEPT !.killed = @ \cup l.pre]
             ELSE hist

\* SMEMBERS userKey
TerminateAllUserSessions(p) ==
  /\ Free(p)
  /\ \E u \in lim.users, keep \in {NoHash} \cup {GetTokenHash(t) : t \in hist.returned},
        ok \in Outcomes :
       LET l == [Idle EXCEPT !.op = "TerminateAll", !.usr = u, !.keep = keep,
                             !.list = index[u] \ {keep}, !.pre = TokensOf(u),
                             !.members = index[u],
                             !.seenCl = IF keep = NoHash THEN NoClaims
                                        ELSE claims[keep]]
       IN IF ~ok
          THEN Return(p, [l EXCEPT !.list = {}], "StoreError") /\ hist' = hist
          ELSE IF l.list = {} THEN AfterLoop(p, l)
          ELSE Goto(p, l, "ta_each") /\ hist' = hist
  /\ UNCHANGED <<now, cfg, lim, active, lastLogin, issued, stores>>

\* One turn of the loop: DEL of the claims key (result dropped), SREM of the
\* hash (a failure is logged and the hash is not counted).
TA_Each(p) ==
  /\ At(p, "ta_each")
  /\ \E th \in loc[p].list, okDel \in Outcomes, okRem \in Outcomes :
       LET l == [loc[p] EXCEPT !.list = @ \ {th},
                               !.n = IF okRem THEN @ + 1 ELSE @]
       IN /\ claims' = IF okDel THEN [claims EXCEPT ![th] = NoClaims] ELSE claims
          /\ IF okRem THEN SRem(loc[p].usr, th) ELSE UNCHANGED <<index, indexExp>>
          /\ IF l.list = {} THEN AfterLoop(p, l)
             ELSE Goto(p, l, "ta_each") /\ hist' = hist
  /\ UNCHANGED <<now, cfg, lim, active, lastLogin, issued, refresh, blacklist>>

\* A return after the loop that leaves the index key as the loop left it.
TA_KeepKey(p) ==
  /\ At(p, "ta_delkey")
  /\ Return(p, loc[p], "ok")
  /\ UNCHANGED <<now, cfg, lim, active, lastLogin, issued, stores, hist>>

\* DEL userKey
TA_DelKey(p) ==
  /\ At(p, "ta_delkey")
  /\ \E ok \in Outcomes :
       IF ok
       THEN /\ index' = [index EXCEPT ![loc[p].usr] = {}]
            /\ indexExp' = [indexExp EXCEPT ![loc[p].usr] = NoExpiry]
            /\ Return(p, loc[p], "ok")
       ELSE /\ UNCHANGED <<index, indexExp>>
            /\ Return(p, loc[p], "StoreError")
  /\ UNCHANGED <<now, cfg, lim, active, lastLogin, issued, claims, refresh, blacklist, hist>>

\* -------------------------------- TokenRedisRepository.getUserTokenClaims
\* SMEMBERS userKey
GetUserSessions(p) ==
  /\ Free(p)
  /\ \E u \in lim.users, ok \in Outcomes :
       LET swept == /\ hist.last.call.op = "TerminateAll"
                    /\ hist.last.call.res = "ok"
                    /\ hist.last.call.usr = u /\ hist.last.call.keep # NoHash
           l == [Idle EXCEPT !.op = "GetSessions", !.usr = u, !.list = index[u],
                             !.after = IF swept THEN {"swept"} ELSE {},
                             !.kept = IF swept THEN hist.last.call.keep ELSE NoHash]
       IN IF ~ok THEN Return(p, [l EXCEPT !.list = {}], "StoreError")
          ELSE IF l.list = {} THEN Return(p, l, "ok")
          ELSE Goto(p, l, "gs_each")
  /\ UNCHANGED <<now, cfg, lim, active, lastLogin, issued, stores, hist>>

\* One turn of the loop: GET of the claims; on any error the hash is SREMed
\* (result dropped) and skipped, else the claims are appended to the answer.
GS_Each(p) ==
  /\ At(p, "gs_each")
  /\ \E th \in loc[p].list, ok \in Outcomes, okRem \in Outcomes :
       LET got == ok /\ Live(th)
           l == [loc[p] EXCEPT !.list = @ \ {th},
                               !.pre = IF got THEN @ \cup {th} ELSE @]
       IN /\ IF ~got /\ okRem THEN SRem(loc[p].usr, th)
             ELSE UNCHANGED <<index, indexExp>>
          /\ IF l.list = {} THEN Return(p, l, "ok") ELSE Goto(p, l, "gs_each")
  /\ UNCHANGED <<now, cfg, lim, active, lastLogin, issued, claims, refresh, blacklist, hist>>

\* ------------------------------------- TokenDBRepository.deleteUserTokens
\* UserService.UpdateUser with IsActive = false on an active account: the
\* row is updated, then the account's tokens are deleted.
DeactivateUser(p) ==
  /\ Free(p)
  /\ \E u \in lim.users :
       /\ active[u]
       /\ active' = [active EXCEPT ![u] = FALSE]
       /\ Goto(p, [Idle EXCEPT !.op = "Deactivate", !.usr = u, !.pre = TokensOf(u)],
               "du_refresh")
  /\ UNCHANGED <<now, cfg, lim, lastLogin, issued, stores, hist>>

\* UserService.ChangePassword: the new hash is stored, then the account's
\* tokens are deleted.
ChangePassword(p) ==
  /\ Free(p)
  /\ \E u \in lim.users :
       Goto(p, [Idle EXCEPT !.op = "ChangePassword", !.usr = u], "du_refresh")
  /\ UNCHANGED <<now, cfg, lim, active, lastLogin, issued, stores, hist>>

\* DELETE FROM refresh_tokens WHERE user_id = $1; on a failure the second
\* DELETE is not issued, and the caller logs the error and returns success.
DU_Refresh(p) ==
  /\ At(p, "du_refresh")
  /\ \E ok \in Outcomes :
       IF ok
       THEN /\ refresh' = {r \in refresh : r.user # loc[p].usr}
            /\ Goto(p, loc[p], "du_blacklist")
            /\ hist' = [hist EXCEPT !.old =
                  @ \cup {t \in hist.rts : t.sub = loc[p].usr}]
       ELSE /\ UNCHANGED <<refresh, hist>>
            /\ Return(p, [loc[p] EXCEPT !.err = TRUE], "ok")
  /\ UNCHANGED <<now, cfg, lim, active, lastLogin, issued, claims, index, indexExp, blacklist>>

\* DELETE FROM blacklisted_tokens WHERE user_id = $1; the caller logs a
\* failure and returns success.
DU_Blacklist(p) ==
  /\ At(p, "du_blacklist")
  /\ \E ok \in Outcomes :
       IF ok
       THEN /\ blacklist' = {r \in blacklist : r.user # loc[p].usr}
            /\ Return(p, loc[p], "ok")
            /\ hist' = [hist EXCEPT
                 !.deact = IF loc[p].op = "Deactivate" THEN @ \cup loc[p].pre ELSE @]
       ELSE /\ UNCHANGED <<blacklist, hist>>
            /\ Return(p, [loc[p] EXCEPT !.err = TRUE], "ok")
  /\ UNCHANGED <<now, cfg, lim, active, lastLogin, issued, claims, index, indexExp, refresh>>

\* ------------------------------- AuthService.startPeriodicTokenCleanup
\* One cycle of the ticker, on the goroutine NewAuthService starts: the three
\* sweeps in turn; a failed sweep is logged and the cycle goes on.  The cycle
\* begins with deleteExpiredRefreshTokens:
\*   DELETE FROM refresh_tokens WHERE expires_at <= NOW()
startPeriodicTokenCleanup(p) ==
  /\ Free(p)
  /\ \E ok \in Outcomes :
       /\ refresh' = IF ok THEN {r \in refresh : ~(r.exp <= now)} ELSE refresh
       /\ Goto(p, [Idle EXCEPT !.op = "Cleanup", !.err = ~ok], "sw_blacklist")
  /\ UNCHANGED <<now, cfg, lim, active, lastLogin, issued, claims, index, indexExp,
                 blacklist, hist>>

\* deleteExpiredBlacklistedTokens:
\*   DELETE FROM blacklisted_tokens WHERE expires_at <= NOW()
SW_Blacklist(p) ==
  /\ At(p, "sw_blacklist")
  /\ \E ok \in Outcomes :
       /\ blacklist' = IF ok THEN {r \in blacklist : ~(r.exp <= now)} ELSE blacklist
       /\ Goto(p, [loc[p] EXCEPT !.err = @ \/ ~ok], "sw_scan")
  /\ UNCHANGED <<now, cfg, lim, active, lastLogin, issued, claims, index, indexExp,
                 refresh, hist>>

\* Where the sweep of the user sets goes on: the next member of the page, the
\* next user key, or the end of the cycle.
SW_Next(p, l) ==
  IF l.list # {} THEN Goto(p, l, "sw_exists")
  ELSE IF l.keys # {} THEN Goto(p, l, "sw_sscan")
  ELSE Return(p, l, "ok")

\* deleteExpiredTokenClaims: SCAN saas_tokens:user:*:tokens (the keys that
\* exist: a set key exists while it has a member); an error ends the sweep.
SW_Scan(p) ==
  /\ At(p, "sw_scan")
  /\ \E ok \in Outcomes :
       IF ok
       THEN SW_Next(p, [loc[p] EXCEPT !.keys = {u \in Users : index[u] # {}}])
       ELSE Return(p, [loc[p] EXCEPT !.err = TRUE], "ok")
  /\ UNCHANGED <<now, cfg, lim, active, lastLogin, issued, stores, hist>>

\* cleanupUserTokens: SSCAN userKey; on an error the user set is skipped.
SW_SScan(p) ==
  /\ At(p, "sw_sscan")
  /\ \E u \in loc[p].keys, ok \in Outcomes :
       SW_Next(p, [loc[p] EXCEPT !.keys = @ \ {u}, !.usr = u,
                                 !.list = IF ok THEN index[u] ELSE {}])
  /\ UNCHANGED <<now, cfg, lim, active, lastLogin, issued, stores, hist>>

\* processUserTokenPage: EXISTS saas_tokens:token:<hash>; on an error the
\* member is skipped, and a member whose key does not exist is to be removed.
SW_Exists(p) ==
  /\ At(p, "sw_exists")
  /\ \E th \in loc[p].list, ok \in Outcomes :
       LET l == [loc[p] EXCEPT !.list = @ \ {th}]
       IN IF ok /\ ~Live(th) THEN Goto(p, [l EXCEPT !.h = th], "sw_srem")
          ELSE SW_Next(p, l)
  /\ UNCHANGED <<now, cfg, lim, active, lastLogin, issued, stores, hist>>

\* SREM userKey <hash>; a failure is only logged.
SW_SRem(p) ==
  /\ At(p, "sw_srem")
  /\ \E ok \in Outcomes :
       IF ok THEN SRem(loc[p].usr, loc[p].h) ELSE UNCHANGED <<index, indexExp>>
  /\ SW_Next(p, loc[p])
  /\ UNCHANGED <<now, cfg, lim, active, lastLogin, issued, claims, refresh, blacklist, hist>>

\* ------------------------------------------------------------ specifications
\* The steps of the handlers, by family.
IssueSteps(p) ==
  \/ Login(p) \/ GT_StoreClaims(p) \/ GT_SAdd(p) \/ GT_Expire(p) \/ GT_StoreRefresh(p)
  \/ LG_Update(p)

RefreshSteps(p) ==
  \/ RefreshToken(p) \/ RF_Check(p) \/ RF_DeleteExpired(p) \/ RF_Delete(p)

SessionSteps(p) ==
  \/ StartSession(p) \/ SS_Get(p) \/ SS_Blacklist(p)
  \/ TU_Get(p) \/ TU_TTL(p) \/ TU_Set(p)
  \/ DC_Get(p) \/ DC_Del(p) \/ DC_SRem(p)
  \/ Logout(p) \/ TerminateSession(p)

BulkSteps(p) ==
  \/ TerminateAllUserSessions(p) \/ TA_Each(p) \/ TA_DelKey(p)
  \/ GetUserSessions(p) \/ GS_Each(p)

PurgeSteps(p) ==
  \/ DeactivateUser(p) \/ ChangePassword(p) \/ DU_Refresh(p) \/ DU_Blacklist(p)

SweepSteps(p) ==
  \/ startPeriodicTokenCleanup(p) \/ SW_Blacklist(p) \/ SW_Scan(p) \/ SW_SScan(p)
  \/ SW_Exists(p) \/ SW_SRem(p)

\* One request at a time on every operation of the services, with the clock
\* running; any store command may fail.
SessLim == [tokens |-> SessTokens, maxTime |-> SessMaxTime, tps |-> SessTicksPerSecond,
            users |-> {"u1"}, faults |-> TRUE, track |-> FALSE,
           meta |-> {""}]

Init == InitWith(SessLim, {[access |-> 3, session |-> 1, refresh |-> 3]})

Next ==
  \/ IssueSteps("p1") \/ SessionSteps("p1") \/ BulkSteps("p1") \/ PurgeSteps("p1")
  \/ Finish("p1")
  \/ Tick

Spec == Init /\ [][Next]_vars

\* One request at a time on Login, StartSession, Logout and TerminateSession;
\* any store command may fail.
SeqLim == [tokens |-> SeqTokens, maxTime |-> SeqMaxTime, tps |-> SeqTicksPerSecond,
           users |-> {"u1"}, faults |-> TRUE, track |-> FALSE,
           meta |-> {""}]

InitSeq == InitWith(SeqLim, {[access |-> 3, session |-> 1, refresh |-> 3]})

NextSeq ==
  \/ IssueSteps("p1") \/ SessionSteps("p1") \/ Finish("p1")
  \/ Tick

SpecSeq == InitSeq /\ [][NextSeq]_vars

\* One request at a time on several sessions of one account; the stores do
\* not fail.
BulkLim == [tokens |-> BulkTokens, maxTime |-> BulkMaxTime, tps |-> 1,
            users |-> {"u1"}, faults |-> FALSE, track |-> TRUE,
           meta |-> {""}]

InitBulk == InitWith(BulkLim, {[access |-> 2, session |-> 3, refresh |-> 4]})

NextBulk ==
  \/ IssueSteps("p1") \/ BulkSteps("p1")
  \/ StartSession("p1") \/ SS_Get("p1") \/ TU_Get("p1") \/ TU_TTL("p1") \/ TU_Set("p1")
  \/ Finish("p1")
  \/ Tick

SpecBulk == InitBulk /\ [][NextBulk]_vars

\* The same, where any store command may fail.
BulkFaultsLim == [tokens |-> BulkFaultsTokens, maxTime |-> BulkFaultsMaxTime, tps |-> 1,
                  users |-> {"u1"}, faults |-> TRUE, track |-> TRUE,
           meta |-> {""}]

InitBulkFaults == InitWith(BulkFaultsLim, {[access |-> 2, session |-> 3, refresh |-> 4]})

SpecBulkFaults == InitBulkFaults /\ [][NextBulk]_vars

\* Two requests in flight on Login and Logout; the stores do not fail.
LogoutLim == [tokens |-> LogoutTokens, maxTime |-> LogoutMaxTime, tps |-> 1,
              users |-> {"u1"}, faults |-> FALSE, track |-> FALSE,
           meta |-> {""}]

InitLogout == InitWith(LogoutLim, {[access |-> 3, session |-> 3, refresh |-> 3]})

NextLogout ==
  \/ \E p \in Procs : \/ IssueSteps(p)
                       \/ Logout(p) \/ DC_Get(p) \/ DC_Del(p) \/ DC_SRem(p)
                       \/ Finish(p)
  \/ Tick

SpecLogout == InitLogout /\ [][NextLogout]_vars

\* One request at a time on the sessions of two accounts: Login,
\* TerminateSession, deactivation and password change; the stores do not fail.
OwnLim == [tokens |-> OwnTokens, maxTime |-> OwnMaxTime, tps |-> 1,
           users |-> Users, faults |-> FALSE, track |-> FALSE,
           meta |-> {""}]

InitOwn == InitWith(OwnLim, {[access |-> 2, session |-> 3, refresh |-> 4]})

NextOwn ==
  \/ IssueSteps("p1") \/ PurgeSteps("p1")
  \/ TerminateSession("p1") \/ DC_Get("p1") \/ DC_Del("p1") \/ DC_SRem("p1")
  \/ Finish("p1")
  \/ Tick

SpecOwn == InitOwn /\ [][NextOwn]_vars

\* The cleanup cycle on its goroutine, beside one request at a time on one
\* session; the stores do not fail.
SweepLim == [tokens |-> SweepTokens, maxTime |-> SweepMaxTime, tps |-> 1,
             users |-> {"u1"}, faults |-> FALSE, track |-> FALSE,
           meta |-> {""}]

InitSweep == InitWith(SweepLim, {[access |-> 3, session |-> 1, refresh |-> 1]})

NextSweep ==
  \/ IssueSteps("p1") \/ SessionSteps("p1") \/ Finish("p1")
  \/ SweepSteps("p2") \/ Finish("p2")
  \/ Tick

SpecSweep == InitSweep /\ [][NextSweep]_vars

\* One request at a time on Login, StartSession, Logout and TerminateSession,
\* the requests carrying an IP address and a user agent or an empty one; any
\* store command may fail.
TouchLim == [tokens |-> TouchTokens, maxTime |-> TouchMaxTime, tps |-> 1,
             users |-> {"u1"}, faults |-> TRUE, track |-> FALSE,
             meta |-> {"", "m1"}]

InitTouch == InitWith(TouchLim, {[access |-> 3, session |-> 1, refresh |-> 3]})

SpecTouch == InitTouch /\ [][NextSeq]_vars

\* One request at a time on Login, RefreshToken and StartSession, the latter
\* with an access token or with a refresh token; the stores do not fail.
RotateLim == [tokens |-> RotateTokens, maxTime |-> RotateMaxTime, tps |-> 1,
              users |-> {"u1"}, faults |-> FALSE, track |-> TRUE,
              meta |-> {""}]

InitRotate == InitWith(RotateLim, {[access |-> 3, session |-> 3, refresh |-> 1]})

NextRotate ==
  \/ IssueSteps("p1") \/ RefreshSteps("p1")
  \/ StartSession("p1") \/ SS_Get("p1") \/ TU_Get("p1") \/ TU_TTL("p1") \/ TU_Set("p1")
  \/ StartSessionRT("p1") \/ SS_GetRT("p1")
  \/ Finish("p1")
  \/ Tick

SpecRotate == InitRotate /\ [][NextRotate]_vars

\* Two requests in flight on one session; the stores may fail.
RaceLim == [tokens |-> RaceTokens, maxTime |-> RaceMaxTime, tps |-> 1,
            users |-> {"u1"}, faults |-> TRUE, track |-> FALSE,
           meta |-> {""}]

InitRace == InitWith(RaceLim, {[access |-> 3, session |-> 1, refresh |-> 3]})

NextRace ==
  \/ \E p \in Procs : IssueSteps(p) \/ SessionSteps(p) \/ Finish(p)
  \/ Tick

SpecRace == InitRace /\ [][NextRace]_vars

\* One request at a time on refresh rotation; the stores do not fail.
RefreshLim == [tokens |-> RefreshTokens, maxTime |-> RefreshMaxTime,
               tps |-> RefreshTicksPerSecond, users |-> {"u1"}, faults |-> FALSE, track |-> FALSE,
           meta |-> {""}]

InitRefresh == InitWith(RefreshLim, {[access |-> 1, session |-> 1, refresh |-> 1]})

NextRefresh ==
  \/ IssueSteps("p1") \/ RefreshSteps("p1") \/ Finish("p1")
  \/ Tick

SpecRefresh == InitRefresh /\ [][NextRefresh]_vars

\* Two requests in flight on refresh rotation; the stores do not fail.
RefreshRaceLim == [tokens |-> RefreshRaceTokens, maxTime |-> RefreshRaceMaxTime,
                   tps |-> 1, users |-> {"u1"}, faults |-> FALSE, track |-> FALSE,
           meta |-> {""}]

InitRefreshRace == InitWith(RefreshRaceLim, {[access |-> 2, session |-> 2, refresh |-> 1]})

NextRefreshRace ==
  \/ \E p \in Procs : IssueSteps(p) \/ RefreshSteps(p) \/ Finish(p)
                     \/ ChangePassword(p) \/ DU_Refresh(p) \/ DU_Blacklist(p)
  \/ Tick

SpecRefreshRace == InitRefreshRace /\ [][NextRefreshRace]_vars

\* ---------------------------------------------------------------- properties
\* hist and the fields after, seenBl and seenCl of loc record what the
\* properties speak of: what was known of a token when a call with it began,
\* and what the call saw in the stores.

\* C1: whenever StartSession returns success, the claims record it read under
\* the token's fingerprint was live and belongs to the token's account, and
\* the blacklist held no unexpired entry for the token when it was consulted;
\* under every interleaving of two requests and every store failure.
C1_StartSessionNeedsLiveClaims ==
  \A p \in Procs :
    (pc[p] = "done" /\ loc[p].op = "StartSession" /\ loc[p].res = "ok")
      => /\ loc[p].tok # NoToken
         /\ loc[p].seenCl.user # NoUser
         /\ loc[p].seenCl.user = issued[loc[p].tok].sub
         /\ ~loc[p].seenBl

\* A StartSession has returned success while another request is in flight.
C1_Witness ==
  \E p, q \in Procs :
    /\ pc[p] = "done" /\ loc[p].op = "StartSession" /\ loc[p].res = "ok"
    /\ loc[p].seenCl.user = "u1"
    /\ q # p /\ pc[q] \notin {"idle", "done"}

\* C2: a StartSession that begins after Logout returned success for its token
\* never returns success.
C2_NoSessionAfterLogout ==
  \A p \in Procs :
    (pc[p] = "done" /\ loc[p].op = "StartSession" /\ "loggedOut" \in loc[p].after)
      => loc[p].res # "ok"

\* C3: in a sequential history without store failures, a Refresh of a stored,
\* unexpired token that was not exchanged before returns a new pair (unless
\* the record expires during the call), and a Refresh of a token that was
\* exchanged before fails with InvalidRefreshToken.
C3_RefreshExactlyOnce ==
  \A p \in Procs :
    (pc[p] = "done" /\ loc[p].op = "Refresh")
      => /\ ("stored" \in loc[p].after /\ "refreshed" \notin loc[p].after
               /\ loc[p].res # "InvalidRefreshToken")
            => loc[p].res = "ok"
         /\ "refreshed" \in loc[p].after => loc[p].res = "InvalidRefreshToken"

\* C4: no refresh token is exchanged for a new pair twice, however two Refresh
\* calls interleave.
C4_NoDoubleRefresh == hist.reused = {}

\* C5: a StartSession that finds an unexpired blacklist entry for its token
\* ends in ValidateToken with an error, whether or not the claims are stored.
C5_BlacklistedRejected ==
  \A p \in Procs :
    (loc[p].op = "StartSession" /\ loc[p].seenBl)
      => pc[p] = "done" /\ loc[p].res \in {"InvalidToken", "StoreError", "Revoked"}

\* A blacklisted token is turned down as revoked while its claims are still
\* stored.
C5_Witness ==
  \E p \in Procs :
    /\ pc[p] = "done" /\ loc[p].op = "StartSession" /\ loc[p].seenBl
    /\ loc[p].res = "Revoked"
    /\ Live(loc[p].h)

\* C6: a StartSession that begins after a StartSession with the same token
\* returned SessionTimedOut never returns success.
C6_NoSessionAfterTimeout ==
  \A p \in Procs :
    (pc[p] = "done" /\ loc[p].op = "StartSession" /\ "timedOut" \in loc[p].after)
      => loc[p].res # "ok"

\* C7: once deleteTokenClaims has deleted the claims of a token, no step
\* stores claims under its fingerprint again.
C7_DeletedStaysAbsent ==
  [][\A t \in hist.deleted :
       ~Live(GetTokenHash(t)) => ~Live(GetTokenHash(t))']_vars

\* C8: a StartSession that begins after the deactivation of the token's
\* account (the account's tokens deleted) never returns success.
C8_NoSessionAfterDeactivation ==
  \A p \in Procs :
    (pc[p] = "done" /\ loc[p].op = "StartSession" /\ "deact" \in loc[p].after)
      => loc[p].res # "ok"

\* C9: when no request is in flight, the table holds no refresh token that
\* was returned before deleteUserTokens deleted the account's rows, and none
\* rotated from such a token.  (hist.old holds these tokens; a token a later
\* Login signs is not among them.)
C9_NoRefreshAfterPurge ==
  (\A p \in Procs : pc[p] = "idle")
    => ~\E r \in refresh : r.key \in hist.old

\* C10: a StartSession that begins after TerminateAllUserSessions(account,
\* nil) returned success, with a token signed for the account before that
\* call, never returns success.
C10_NoSessionAfterTerminateAll ==
  \A p \in Procs :
    (pc[p] = "done" /\ loc[p].op = "StartSession" /\ "killed" \in loc[p].after)
      => loc[p].res # "ok"

\* C11: when TerminateAllUserSessions(account, keep) with a fingerprint to keep
\* returns success, no other fingerprint that was in the account's index has
\* claims any more, the claims of the kept session are as they were (unless
\* their TTL ran out), and a StartSession with the kept token right after
\* succeeds (unless a store command of that StartSession fails).
C11_KeepPreservedOthersGone ==
  /\ \A p \in Procs :
       (/\ pc[p] = "done" /\ loc[p].op = "TerminateAll" /\ loc[p].res = "ok"
        /\ loc[p].keep # NoHash)
         => /\ \A h \in loc[p].members \ {loc[p].keep} : ~Live(h)
            /\ (/\ loc[p].seenCl.user # NoUser
                /\ (loc[p].seenCl.exp = NoExpiry \/ loc[p].seenCl.exp > now))
                 => claims[loc[p].keep] = loc[p].seenCl
  /\ \A p \in Procs :
       (/\ pc[p] = "done" /\ loc[p].op = "StartSession" /\ "kept" \in loc[p].after
        /\ ~loc[p].err)
         => loc[p].res = "ok"

\* C12: a GetUserSessions(account) that follows a successful
\* TerminateAllUserSessions(account, keep) with a fingerprint to keep, with no
\* call in between, returns no session other than the kept one.
C12_AtMostKeptListed ==
  \A p \in Procs :
    (/\ pc[p] = "done" /\ loc[p].op = "GetSessions" /\ loc[p].res = "ok"
     /\ "swept" \in loc[p].after)
      => loc[p].pre \subseteq {loc[p].kept}

\* GetUserSessions has answered after a TerminateAllUserSessions that kept a
\* session whose claims are stored.
C12_Witness ==
  \E p \in Procs :
    /\ pc[p] = "done" /\ loc[p].op = "GetSessions" /\ loc[p].res = "ok"
    /\ "swept" \in loc[p].after
    /\ Live(loc[p].kept)
    /\ Len(issued) > 1

\* C13: a Login whose request is in order (known account, right secret,
\* active account, accessible tenant) returns a pair, with the claims of the
\* account stored under the fingerprint of the access token and a refresh row
\* of the account stored; and a StartSession with that access token right
\* after it succeeds with the claims of the account (unless a store command of
\* that StartSession fails).
C13_LoginOpensSession ==
  /\ \A p \in Procs :
       (pc[p] = "done" /\ loc[p].op = "Login" /\ loc[p].after = {})
         => /\ loc[p].res = "ok"
            /\ loc[p].tok # NoToken /\ loc[p].new # NoRT
            /\ loc[p].h = GetTokenHash(loc[p].tok)
            /\ claims[loc[p].h].user = loc[p].usr
            /\ \E r \in refresh : r.key = DurableKey(loc[p].new) /\ r.user = loc[p].usr
  /\ \A p \in Procs :
       (/\ pc[p] = "done" /\ loc[p].op = "StartSession" /\ "fresh" \in loc[p].after
        /\ ~loc[p].err)
         => loc[p].res = "ok" /\ loc[p].seenCl.user = issued[loc[p].tok].sub

\* C14: while the stores work, every Logout returns without error, also when
\* it is not the first on its token and when it overlaps another; once a
\* Logout has returned for a token, the blacklist holds exactly one row for
\* it and no claims are stored for it, and no later step (a further Logout
\* among them) changes that row or stores claims for it again.
C14_LogoutRows(t) == {r \in blacklist : r.key = DurableKey(t)}

C14_LogoutIdempotent ==
  /\ [](\A p \in Procs :
          (pc[p] = "done" /\ loc[p].op = "Logout") => loc[p].res = "ok")
  /\ [](\A t \in hist.loggedOut :
          Cardinality(C14_LogoutRows(t)) = 1 /\ ~Live(GetTokenHash(t)))
  /\ [][\A t \in hist.loggedOut :
          C14_LogoutRows(t)' = C14_LogoutRows(t) /\ ~Live(GetTokenHash(t))']_vars

\* A Logout has returned for a token that an earlier Logout had returned for,
\* while a third call on the same token is still in flight.
C14_Witness ==
  \E p, q \in Procs :
    /\ pc[p] = "done" /\ loc[p].op = "Logout" /\ loc[p].res = "ok"
    /\ "loggedOut" \in loc[p].after
    /\ q # p /\ loc[q].op = "Logout" /\ loc[q].tok = loc[p].tok
    /\ pc[q] \notin {"idle", "done"}

\* C15: no row of the refresh-token table or of the blacklist table has a
\* token itself as its key: the key of a blacklist row is never an access
\* token this service signed, and the key of a refresh row is never a refresh
\* token this service signed.
C15_NoRawTokenStored ==
  /\ \A r \in blacklist : r.key \notin 1..Len(issued)
  /\ \A r \in refresh : r.key \notin hist.rts \cup {loc[p].new : p \in Procs}

\* C16: no step moves the expiry of a stored claims record later or takes
\* it away: a record that is stored before and after a step has an expiry
\* after it, not later than the one it had (so the expiry never passes the
\* one set at issuance, issuance time + SessionTimeout).
C16_ExpiryNeverExtended ==
  [][\A h \in Hashes :
       (Live(h) /\ Live(h)')
         => /\ claims[h].exp' # NoExpiry
            /\ claims[h].exp # NoExpiry => claims[h].exp' <= claims[h].exp]_vars

\* C17: TerminateSession(account, fingerprint) answers SessionNotFound when
\* no claims are stored under the fingerprint and SessionMismatch when the
\* stored claims belong to another account, both without changing a store;
\* it goes on to delete only when the stored claims belong to the account,
\* and its steps then change nothing but the claims under that fingerprint
\* and the index of that account.
C17_TerminateSessionOwnerOnly ==
  [][\A p \in Procs :
       /\ (pc[p] = "idle" /\ loc'[p].op = "TerminateSession")
            => LET h == loc'[p].h
                   u == loc'[p].usr
               IN /\ ~Live(h)
                       => /\ pc'[p] = "done" /\ loc'[p].res = "SessionNotFound"
                          /\ UNCHANGED stores
                  /\ (Live(h) /\ claims[h].user # u)
                       => /\ pc'[p] = "done" /\ loc'[p].res = "SessionMismatch"
                          /\ UNCHANGED stores
                  /\ pc'[p] # "done" => (Live(h) /\ claims[h].user = u)
       /\ (loc[p].op = "TerminateSession" /\ pc'[p] # pc[p])
            => /\ UNCHANGED <<refresh, blacklist>>
               /\ \A g \in Hashes \ {loc[p].h} : claims'[g] = claims[g]
               /\ \A v \in Users \ {issued[loc[p].tok].sub} : index'[v] = index[v]
               /\ (claims' # claims \/ index' # index)
                    => issued[loc[p].tok].sub = loc[p].usr]_vars

\* TerminateSession has answered SessionMismatch for a session that is stored
\* and belongs to another account.
C17_Witness ==
  \E p \in Procs :
    /\ pc[p] = "done" /\ loc[p].op = "TerminateSession"
    /\ loc[p].res = "SessionMismatch"
    /\ Live(loc[p].h) /\ claims[loc[p].h].user # loc[p].usr
    /\ loc[p].h \in index[claims[loc[p].h].user]

\* C18: a Login whose account is unknown, whose secret does not verify, whose
\* account is inactive or whose tenant is missing or not active returns an
\* error and no tokens, and writes nothing: the tables, the Redis keys, the
\* tokens signed and the account rows (last login, is_active) stay as they are.
C18_FailedLoginWritesNothing ==
  [][\A p \in Procs :
       (pc[p] = "idle" /\ loc'[p].op = "Login" /\ loc'[p].after # {})
         => /\ pc'[p] = "done"
            /\ loc'[p].res \in {"UserNotFound", "InvalidCredentials",
                     "AccountInactive", "TenantNotFound", "TenantUnavailable"}
            /\ loc'[p].tok = NoToken /\ loc'[p].new = NoRT
            /\ UNCHANGED <<stores, issued, lastLogin, active, hist>>]_vars

\* A Login of a deactivated account has been turned down while claims of an
\* earlier session of the account are stored.
C18_Witness ==
  \E p \in Procs :
    /\ pc[p] = "done" /\ loc[p].op = "Login" /\ loc[p].res = "AccountInactive"
    /\ "inactive" \in loc[p].after
    /\ \E h \in Hashes : claims[h].user = loc[p].usr
    /\ lastLogin[loc[p].usr] # NoExpiry

\* C19: every turn of the loop of GetUserSessions on a fingerprint of the
\* index whose claims are stored puts the session into the answer and leaves
\* the index as it is; a turn on a fingerprint whose claims are gone puts
\* nothing into the answer; and a turn removes from the index nothing but its
\* fingerprint, and only when its claims are gone.
C19_GetSessionsReapsOnlyStale ==
  [][\A p \in Procs :
       (pc[p] = "gs_each" /\ loc'[p] # loc[p])
         => LET th == CHOOSE x \in loc[p].list : x \notin loc'[p].list
                u == loc[p].usr
            IN /\ Live(th) => (th \in loc'[p].pre /\ index' = index)
               /\ ~Live(th) => loc'[p].pre = loc[p].pre
               /\ \A g \in index[u] \ index'[u] : g = th /\ ~Live(g)]_vars

\* C20: a step of the cleanup cycle, wherever it falls among the steps of the
\* requests, adds nothing and removes only refresh rows and blacklist rows
\* whose expiry is at or before the current time and index entries whose
\* claims are not stored; the claims are left alone.
C20_SweepRemovesOnlyDead ==
  [][\A p \in Procs :
       (loc'[p].op = "Cleanup" /\ (pc'[p] # pc[p] \/ loc'[p] # loc[p]))
         => /\ refresh' \subseteq refresh
            /\ \A r \in refresh \ refresh' : r.exp <= now
            /\ blacklist' \subseteq blacklist
            /\ \A r \in blacklist \ blacklist' : r.exp <= now
            /\ claims' = claims
            /\ \A u \in Users :
                 /\ index'[u] \subseteq index[u]
                 /\ \A h \in index[u] \ index'[u] : ~Live(h)]_vars

\* C21: Logout returns an error exactly when its blacklist INSERT returned an
\* error, and then the Claim Set of the token is as the call found it; when
\* the INSERT worked Logout returns success, also when a command of the
\* claims delete that follows failed.
C21_LogoutFailsOnlyOnInsert ==
  \A p \in Procs :
    (pc[p] = "done" /\ loc[p].op = "Logout")
      => /\ (loc[p].res # "ok") <=> ~loc[p].ins
         /\ ~loc[p].ins => claims[loc[p].h] = loc[p].seenCl

\* A Logout whose INSERT worked and whose claims delete failed has returned
\* success, the Claim Set still stored.
C21_Witness ==
  \E p \in Procs :
    /\ pc[p] = "done" /\ loc[p].op = "Logout" /\ loc[p].res = "ok"
    /\ loc[p].ins /\ loc[p].err /\ Live(loc[p].h)

\* C22: a StartSession whose token passed every check (signature, blacklist,
\* stored claims found, same account, not timed out) and whose activity touch
\* failed returns success, and the claims it returns carry the account of the
\* stored claims and the IP address and user agent of the call.
C22_TouchFailureStillSucceeds ==
  \A p \in Procs :
    (/\ pc[p] = "done" /\ loc[p].op = "StartSession"
     /\ "valid" \in loc[p].after /\ loc[p].err)
      => /\ loc[p].res = "ok"
         /\ loc[p].ret.user = loc[p].seenCl.user
         /\ loc[p].ret.user = issued[loc[p].tok].sub
         /\ loc[p].ret.ip = loc[p].ip
         /\ loc[p].ret.ua = loc[p].ua

\* A StartSession whose touch failed has returned claims with the IP address
\* of the call, while the stored claims carry another one.
C22_Witness ==
  \E p \in Procs :
    /\ pc[p] = "done" /\ loc[p].op = "StartSession" /\ loc[p].res = "ok"
    /\ "valid" \in loc[p].after /\ loc[p].err
    /\ loc[p].ip = "m1" /\ loc[p].ret.ip = "m1"
    /\ Live(loc[p].h) /\ claims[loc[p].h].ip = ""

\* C23: whenever no request is in flight, the fingerprint of every live Claim
\* Set is a member of the Session Index of its account.
C23_LiveClaimsIndexed ==
  (\A p \in Procs : pc[p] = "idle")
    => \A h \in Hashes : Live(h) => h \in index[claims[h].user]

\* C24: once Logout has returned success for a token, ValidateToken (the
\* first step of StartSession) turns the token down in every later call,
\* whatever was called in between: no such call gets as far as reading the
\* stored claims.
C24_ValidateFailsAfterLogout ==
  \A p \in Procs :
    (loc[p].op = "StartSession" /\ "loggedOut" \in loc[p].after)
      => /\ pc[p] = "done"
         /\ loc[p].res \in {"InvalidToken", "StoreError", "Revoked"}

\* C25: a Login or a Refresh that returns a token pair was called for an
\* account that is active and whose tenant is accessible.
C25_NoPairForInactiveOrNoTenant ==
  \A p \in Procs :
    (pc[p] = "done" /\ loc[p].op \in {"Login", "Refresh"} /\ loc[p].res = "ok")
      => loc[p].after \cap {"inactive", "noTenant"} = {}

\* C26: the refresh token an issuance is about to store has no record yet (so
\* its INSERT does not fail on the unique key), and the refresh token a
\* rotation is about to delete is not the one it has just issued.
C26_FreshRefreshToken ==
  \A p \in Procs :
    /\ pc[p] = "gt_refresh"
         => ~\E r \in refresh :
               r.key = DurableKey([sub |-> loc[p].usr, iat |-> SecondOf(loc[p].t0)])
    /\ pc[p] = "rf_delete" => DurableKey(loc[p].new) # DurableKey(loc[p].rt)

\* C27: when a Login or a Refresh returns an error, the Claim Set it may have
\* written is not stored and its fingerprint is in no Session Index.
C27_FailedIssuanceLeavesNothing ==
  \A p \in Procs :
    (/\ pc[p] = "done" /\ loc[p].op \in {"Login", "Refresh"}
     /\ loc[p].res # "ok" /\ loc[p].h # NoHash)
      => /\ ~Live(loc[p].h)
         /\ \A u \in Users : loc[p].h \notin index[u]

\* A step taken by a Refresh that task p runs.
C28_StepOfRefresh(p) == loc'[p].op = "Refresh" /\ pc'[p] # pc[p]

\* C28: a step of a Refresh leaves every blacklist row and every stored Claim
\* Set as it is, adds to the Session Index nothing but the fingerprint of the
\* access token it signed, and adds or deletes no refresh record but the one of
\* the token it issued and the one of the token it was given; and a
\* StartSession with the access token that was issued together with the
\* refresh token a Refresh has just exchanged succeeds, unless the token or
\* its Claim Set has reached its expiry.
C28_RefreshFrame ==
  [][\A p \in Procs :
       C28_StepOfRefresh(p)
         => /\ blacklist' = blacklist
            /\ \A h \in Hashes : Live(h) => claims'[h] = claims[h]
            /\ \A u \in Users : /\ index[u] \subseteq index'[u]
                                /\ index'[u] \ index[u] \subseteq {loc'[p].h}
            /\ \A r \in refresh \ refresh' : r.key = DurableKey(loc'[p].rt)
            /\ \A r \in refresh' \ refresh : r.key = DurableKey(loc'[p].new)]_vars
  /\ [](\A p \in Procs :
         (/\ pc[p] = "done" /\ loc[p].op = "StartSession"
          /\ "rotated" \in loc[p].after)
           => \/ loc[p].res = "ok"
              \/ loc[p].res = "InvalidToken" /\ now >= issued[loc[p].tok].exp
              \/ /\ loc[p].res = "SessionNotFound"
                 /\ now >= issued[loc[p].tok].exp - Ticks(cfg.access)
                             + Ticks(cfg.session))

\* A StartSession has succeeded with the access token whose refresh token
\* the Refresh before it exchanged.
C28_Witness ==
  \E p \in Procs :
    /\ pc[p] = "done" /\ loc[p].op = "StartSession" /\ loc[p].res = "ok"
    /\ "rotated" \in loc[p].after
    /\ PairOf(loc[p].tok) \notin {r.key : r \in refresh}

\* C29: a StartSession that is given a refresh token is turned down by
\* ValidateToken, its first step: it never gets as far as reading the stored
\* claims, and it returns an error.
C29_RefreshTokenNotAccepted ==
  \A p \in Procs :
    (loc[p].op = "StartSession" /\ loc[p].rt # NoRT)
      => /\ pc[p] = "done"
         /\ loc[p].res \in {"InvalidToken", "Revoked", "StoreError"}

\* C30: every stored Claim Set has a LastActivity no more than SessionTimeout
\* back, and no StartSession finds its session timed out.
C30_TimedOutUnreachable ==
  /\ \A h \in Hashes : Live(h) => now - claims[h].la <= Ticks(cfg.session)
  /\ \A p \in Procs : loc[p].op = "StartSession" => loc[p].res # "SessionTimedOut"
====
